---- MODULE Spec2Model ----
(***************************************************************************)
(* NpmCodeLensProvider (src/providers/npm/npmCodeLensProvider.js).         *)
(*                                                                         *)
(* The provider keeps two fields, _outdatedCache and _documentPath, and    *)
(* writes appSettings.inProgress.  The host calls provideCodeLenses and    *)
(* evaluateCodeLens on one event loop: a call runs to completion, the      *)
(* promise callbacks it queued (microtasks) run before the next host call  *)
(* or I/O completion, and an npmGetOutdated request settles at any later   *)
(* time.                                                                   *)
(***************************************************************************)
EXTENDS Integers, Sequences, FiniteSets, TLC

\* Bounds of the model.
MaxCalls == 2
MaxOutdated == 2

\* ---------------------------------------------------------------- data

PackageNames == {"a", "b"}
TagVersions == {"1.0.0", "2.0.0"}
\* `current` of an npm-outdated entry; "" is the falsy value.
CurrentVersions == {"", "1.0.0"}

\* A file path is the sequence of its components; '' is the empty sequence.
Dirs == {<<"a">>, <<"b">>}
ManifestName == "package.json"

SeqsUpTo(S, n) == UNION {[1..k -> S] : k \in 0..n}

OutdatedEntries == [name : PackageNames, current : CurrentVersions]
Caches == SeqsUpTo(OutdatedEntries, MaxOutdated)

\* What jsonParser.parse gives for a document's text.
ParseOutcomes == {"null", "noRoot", "errors", "ok"}

\* ---------------------------------------------------------------- lenses

Predicates ==
  {"packageNotFound", "packageNotSupported", "isTaggedVersion",
   "isInvalidVersion", "versionMatchNotFound", "matchesPrereleaseVersion",
   "matchesLatestVersion", "satisfiesLatestVersion", "isFixedVersion"}

Undefined == "undefined"

\* package.meta: absent, or {type, tag: {version}}.
Metas ==
  {[present |-> FALSE, type |-> Undefined, tagVersion |-> Undefined]}
  \cup [present : {TRUE}, type : {"github", "file", "npm"}, tagVersion : TagVersions]

DeclaredVersion == "^1.0.0"
TaggedVersion == "latest"

\* A code lens: its package (name, version, meta), the answers of its
\* predicate methods, and what getTaggedVersion() returns.
Lens(name, meta, truePreds) ==
  [name |-> name, version |-> DeclaredVersion, meta |-> meta,
   is |-> [p \in Predicates |-> p \in truePreds], tagged |-> TaggedVersion]

AllLenses == {Lens("a", m, ps) : m \in Metas, ps \in SUBSET Predicates}

\* ---------------------------------------------------------------- commands

NoCommand == [kind |-> "none", args |-> <<>>]
Command(kind) == [kind |-> kind, args |-> <<>>]
\* CommandFactory.createVersionCommand(version, tagVersion, codeLens)
createVersionCommand(version, tagVersion) ==
  [kind |-> "version", args |-> <<version, tagVersion>>]

\* ---------------------------------------------------------------- decorations

NoDecoration == [kind |-> "none", args |-> <<>>]
Decoration(kind, args) == [kind |-> kind, args |-> args]

\* ---------------------------------------------------------------- evaluateCodeLens

\* What the collaborators called by generateDecoration do in one evaluation:
\* npmPackageDirExists returns true ("yes"), returns false ("no") or throws;
\* a render function returns or throws.
Environments ==
  {e \in [dirExists : {"yes", "no", "throws"}, renderThrows : BOOLEAN] :
     e.dirExists = "throws" => ~e.renderThrows}
TotalEnvironments == {e \in Environments : e.dirExists # "throws" /\ ~e.renderThrows}
NotCalled == [dirExists |-> "notCalled", renderThrows |-> FALSE]

\* The checks of evaluateCodeLens that come before the decoration.
CommandBeforeDecoration(codeLens) ==
  IF codeLens.meta.present /\ codeLens.meta.type = "github"
    THEN Command("github")
  ELSE IF codeLens.meta.present /\ codeLens.meta.type = "file"
    THEN Command("link")
  ELSE IF codeLens.is["packageNotFound"]
    THEN Command("packageNotFound")
  ELSE IF codeLens.is["packageNotSupported"]
    THEN Command("packageNotSupported")
  ELSE IF codeLens.is["isTaggedVersion"]
    THEN Command("taggedVersion")
  ELSE NoCommand

\* Mutant: the latest-version check placed before the prerelease check.
CommandAfterDecoration_LatestFirst(codeLens) ==
  IF codeLens.is["isInvalidVersion"]
    THEN Command("invalid")
  ELSE IF codeLens.is["versionMatchNotFound"]
    THEN Command("versionMatchNotFound")
  ELSE IF codeLens.is["matchesLatestVersion"]
    THEN Command("matchesLatestVersion")
  ELSE IF codeLens.is["matchesPrereleaseVersion"]
    THEN Command("matchesPrereleaseVersion")
  ELSE IF codeLens.is["satisfiesLatestVersion"]
    THEN Command("satisfiesLatestVersion")
  ELSE IF codeLens.is["isFixedVersion"]
    THEN Command("fixedVersion")
  ELSE createVersionCommand(codeLens.version, codeLens.tagged)

\* The checks of evaluateCodeLens that come after the decoration.
CommandAfterDecoration(codeLens) ==
  IF codeLens.is["isInvalidVersion"]
    THEN Command("invalid")
  ELSE IF codeLens.is["versionMatchNotFound"]
    THEN Command("versionMatchNotFound")
  ELSE IF codeLens.is["matchesPrereleaseVersion"]
    THEN Command("matchesPrereleaseVersion")
  ELSE IF codeLens.is["matchesLatestVersion"]
    THEN Command("matchesLatestVersion")
  ELSE IF codeLens.is["satisfiesLatestVersion"]
    THEN Command("satisfiesLatestVersion")
  ELSE IF codeLens.is["isFixedVersion"]
    THEN Command("fixedVersion")
  ELSE createVersionCommand(codeLens.version, codeLens.tagged)

\* outdated.findIndex(entry => entry.name === name): the first index, or -1.
findIndex(outdated, name) ==
  IF \E i \in 1..Len(outdated) : outdated[i].name = name
    THEN CHOOSE i \in 1..Len(outdated) :
           /\ outdated[i].name = name
           /\ \A j \in 1..(i - 1) : outdated[j].name # name
    ELSE -1

\* A render call: the decoration it shows, unless it throws.
Render(decoration, env) ==
  IF env.renderThrows
    THEN [threw |-> TRUE, rendered |-> NoDecoration]
    ELSE [threw |-> FALSE, rendered |-> decoration]
TypeError == [threw |-> TRUE, rendered |-> NoDecoration]

\* Mutant: the callback without the check for an empty current version.
DecorationCallback_NoEmptyCheck(outdated, codeLens, env) ==
  LET index == findIndex(outdated, codeLens.name)
      current == outdated[index].current
      entered == codeLens.meta.tagVersion
  IN IF ~codeLens.meta.present THEN TypeError
     ELSE IF index = -1
       THEN Render(Decoration("installed", <<entered>>), env)
     ELSE IF current = entered
       THEN IF codeLens.is["matchesLatestVersion"]
              THEN Render(Decoration("installed", <<current, entered>>), env)
            ELSE IF codeLens.is["matchesPrereleaseVersion"]
              THEN Render(Decoration("prereleaseInstalled", <<entered>>), env)
            ELSE Render(Decoration("outdated", <<current>>), env)
     ELSE Render(Decoration("needsUpdate", <<current>>), env)

\* The callback generateDecoration chains on Promise.resolve(this._outdatedCache).
\* Reading meta.tag.version of a package without meta throws a TypeError.
DecorationCallback(outdated, codeLens, env) ==
  LET index == findIndex(outdated, codeLens.name)
      current == outdated[index].current
      entered == codeLens.meta.tagVersion
  IN IF index = -1
       THEN IF ~codeLens.meta.present THEN TypeError
            ELSE Render(Decoration("installed", <<entered>>), env)
     ELSE IF ~codeLens.meta.present THEN TypeError
     ELSE IF current = ""
       THEN Render(Decoration("missing", <<>>), env)
     ELSE IF current = entered
       THEN IF codeLens.is["matchesLatestVersion"]
              THEN Render(Decoration("installed", <<current, entered>>), env)
            ELSE IF codeLens.is["matchesPrereleaseVersion"]
              THEN Render(Decoration("prereleaseInstalled", <<entered>>), env)
            ELSE Render(Decoration("outdated", <<current>>), env)
     ELSE Render(Decoration("needsUpdate", <<current>>), env)

\* The synchronous part of generateDecoration: `queued` says whether the
\* callback on the cache was queued, `outdated` is the array it will receive.
generateDecoration(codeLens, documentPath, outdatedCache, env) ==
  IF env.dirExists = "throws"
    THEN [threw |-> TRUE, rendered |-> NoDecoration, queued |-> FALSE,
          documentPath |-> documentPath, outdated |-> <<>>]
  ELSE IF env.dirExists = "no"
    THEN [threw |-> Render(Decoration("missing", <<>>), env).threw,
          rendered |-> Render(Decoration("missing", <<>>), env).rendered,
          queued |-> FALSE, documentPath |-> documentPath, outdated |-> <<>>]
  ELSE [threw |-> FALSE, rendered |-> NoDecoration, queued |-> TRUE,
        documentPath |-> documentPath, outdated |-> outdatedCache]

NoLens == [name |-> Undefined, version |-> Undefined,
           meta |-> [present |-> FALSE, type |-> Undefined, tagVersion |-> Undefined],
           is |-> [p \in Predicates |-> FALSE], tagged |-> Undefined]

\* The record of one evaluateCodeLens call: what it was given, what it
\* returned or threw, and what its decoration did.
NoEvaluation ==
  [status |-> "none", codeLens |-> NoLens, showDependencyStatuses |-> FALSE,
   env |-> NotCalled, command |-> NoCommand, generateDecorationCalls |-> 0,
   documentPath |-> <<>>, outdated |-> <<>>, pending |-> FALSE,
   rendered |-> NoDecoration, callbackRuns |-> 0, logged |-> 0]

\* Mutant: the decoration generated before the first check instead of after
\* the tagged-version check.
evaluateCodeLens_DecorationFirst(codeLens, showDependencyStatuses, documentPath, outdatedCache, env) ==
  LET early == CommandBeforeDecoration(codeLens)
      deco == generateDecoration(codeLens, documentPath, outdatedCache, env)
      command == IF early # NoCommand THEN early
                 ELSE CommandAfterDecoration(codeLens)
      base == [NoEvaluation EXCEPT !.codeLens = codeLens,
                 !.showDependencyStatuses = showDependencyStatuses]
  IN IF ~showDependencyStatuses
       THEN [base EXCEPT !.status = "returned", !.command = command]
     ELSE IF deco.threw
       THEN [base EXCEPT !.status = "threw", !.env = env,
               !.generateDecorationCalls = 1,
               !.documentPath = deco.documentPath]
     ELSE [base EXCEPT !.status = "returned", !.env = env,
             !.command = command,
             !.generateDecorationCalls = 1,
             !.documentPath = deco.documentPath, !.outdated = deco.outdated,
             !.pending = deco.queued, !.rendered = deco.rendered]

evaluateCodeLens(codeLens, showDependencyStatuses, documentPath, outdatedCache, env) ==
  LET early == CommandBeforeDecoration(codeLens)
      deco == generateDecoration(codeLens, documentPath, outdatedCache, env)
      base == [NoEvaluation EXCEPT !.codeLens = codeLens,
                 !.showDependencyStatuses = showDependencyStatuses]
  IN IF early # NoCommand
       THEN [base EXCEPT !.status = "returned", !.command = early]
     ELSE IF ~showDependencyStatuses
       THEN [base EXCEPT !.status = "returned",
               !.command = CommandAfterDecoration(codeLens)]
     ELSE IF deco.threw
       THEN [base EXCEPT !.status = "threw", !.env = env,
               !.generateDecorationCalls = 1,
               !.documentPath = deco.documentPath]
     ELSE [base EXCEPT !.status = "returned", !.env = env,
             !.command = CommandAfterDecoration(codeLens),
             !.generateDecorationCalls = 1,
             !.documentPath = deco.documentPath, !.outdated = deco.outdated,
             !.pending = deco.queued, !.rendered = deco.rendered]

\* ---------------------------------------------------------------- documents

\* The dependency declarations of the manifests the host opens.
DependencyLists == {<<>>, <<"a">>, <<"a", "b">>}

\* A text document: the path of its file, what jsonParser.parse makes of its
\* text, and the dependency declarations extractDependencyNodes recognizes.
Documents ==
  {d \in [fsPath : {dir \o <<ManifestName>> : dir \in Dirs},
          parse : ParseOutcomes,
          dependencies : DependencyLists] :
     d.parse # "ok" => d.dependencies = <<>>}

\* path.dirname
dirname(fsPath) == SubSeq(fsPath, 1, Len(fsPath) - 1)

\* jsonParser.parse(document.getText())
jsonParse(document) ==
  [isNull |-> document.parse = "null",
   root |-> document.parse \in {"errors", "ok"},
   errors |-> IF document.parse = "errors" THEN 1 ELSE 0]

\* Mutant: the validation errors not checked.
ParseFailed_ErrorsIgnored(jsonDoc) == jsonDoc.isNull \/ ~jsonDoc.root

\* !jsonDoc || !jsonDoc.root || jsonDoc.validationResult.errors.length > 0
ParseFailed(jsonDoc) == jsonDoc.isNull \/ ~jsonDoc.root \/ jsonDoc.errors > 0

\* The registry's answer for a dependency, as npmPackageParser wraps it.
RegistryPackage(name) ==
  IF name = "a"
    THEN Lens("a", [present |-> TRUE, type |-> "npm", tagVersion |-> "1.0.0"],
              {"matchesLatestVersion"})
    ELSE Lens(name, [present |-> FALSE, type |-> Undefined, tagVersion |-> Undefined],
              {"satisfiesLatestVersion"})

\* parseDependencyNodes(extractDependencyNodes(root, ...), appConfig, npmPackageParser)
parseDependencyNodes(document) ==
  [i \in 1..Len(document.dependencies) |-> RegistryPackage(document.dependencies[i])]

\* generateCodeLenses(packageCollection, document): one lens per package.
generateCodeLenses(packageCollection) ==
  [i \in 1..Len(packageCollection) |-> packageCollection[i]]

\* What `npm outdated` reports in a directory.
npmOutdated(path) ==
  IF path = <<"a">> THEN <<[name |-> "a", current |-> "1.0.0"]>>
  ELSE IF path = <<"b">> THEN <<[name |-> "b", current |-> ""], [name |-> "a", current |-> ""]>>
  ELSE <<>>

\* ---------------------------------------------------------------- state

VARIABLES
  _outdatedCache,   \* this._outdatedCache
  _documentPath,    \* this._documentPath
  showVersionLenses, \* appSettings.showVersionLenses
  inProgress,       \* appSettings.inProgress
  calls,            \* the provideCodeLenses invocations so far, in call order
  evaluation        \* the latest evaluateCodeLens call

vars ==
  <<_outdatedCache, _documentPath, showVersionLenses, inProgress, calls, evaluation>>

\* One provideCodeLenses invocation: its arguments and the setting it read,
\* what it returned, the state of the promise it returned, its npmGetOutdated
\* request, and the calls it made.
NewCall(document) ==
  [document |-> document, showVersionLenses |-> showVersionLenses,
   returned |-> "undefined", promise |-> "none", value |-> <<>>,
   resolvedWith |-> "none", path |-> <<>>, npmGetOutdatedCalls |-> 0,
   refresh |-> "none", results |-> <<>>, continuation |-> FALSE,
   generateCodeLensesCalls |-> 0, logged |-> 0]

\* No promise callback is queued: the event loop can take a host call or an
\* I/O completion.
MicrotasksEmpty ==
  /\ ~evaluation.pending
  /\ \A i \in 1..Len(calls) : ~calls[i].continuation

RefreshPending(i) == calls[i].refresh = "pending"
NoRefreshPending == \A i \in 1..Len(calls) : ~RefreshPending(i)

\* The provider as constructed; showVersionLenses is whatever the user has set
\* and the provider never writes it.
Init ==
  /\ _outdatedCache = <<>>
  /\ _documentPath = <<>>
  /\ showVersionLenses \in BOOLEAN
  /\ inProgress = FALSE
  /\ calls = <<>>
  /\ evaluation = NoEvaluation

\* ---------------------------------------------------------------- provideCodeLenses

\* Mutant: the lenses generated at once, not in the callback chained on the
\* refresh.
provideCodeLenses_NotAwaiting(document) ==
  LET call == NewCall(document)
      path == dirname(document.fsPath)
  IN IF showVersionLenses = FALSE
       THEN [documentPath |-> _documentPath, inProgress |-> inProgress,
             call |-> call]
     ELSE IF ParseFailed(jsonParse(document))
       THEN [documentPath |-> path, inProgress |-> inProgress,
             call |-> [call EXCEPT !.returned = "array"]]
     ELSE [documentPath |-> path, inProgress |-> TRUE,
           call |-> [call EXCEPT !.returned = "promise", !.promise = "pending",
                       !.path = path, !.npmGetOutdatedCalls = 1,
                       !.refresh = "pending",
                       !.generateCodeLensesCalls = 1,
                       !.value = generateCodeLenses(parseDependencyNodes(document))]]

\* The synchronous body of provideCodeLenses.
provideCodeLenses(document) ==
  LET call == NewCall(document)
      path == dirname(document.fsPath)
  IN IF showVersionLenses = FALSE
       THEN [documentPath |-> _documentPath, inProgress |-> inProgress,
             call |-> call]
     ELSE IF ParseFailed(jsonParse(document))
       THEN [documentPath |-> path, inProgress |-> inProgress,
             call |-> [call EXCEPT !.returned = "array"]]
     ELSE [documentPath |-> path, inProgress |-> TRUE,
           call |-> [call EXCEPT !.returned = "promise", !.promise = "pending",
                       !.path = path, !.npmGetOutdatedCalls = 1,
                       !.refresh = "pending"]]

ProvideCodeLenses(document) ==
  /\ MicrotasksEmpty
  /\ Len(calls) < MaxCalls
  /\ LET r == provideCodeLenses(document)
     IN /\ _documentPath' = r.documentPath
        /\ inProgress' = r.inProgress
        /\ calls' = Append(calls, r.call)
  /\ UNCHANGED <<_outdatedCache, showVersionLenses, evaluation>>

\* Mutant: a cache that was filled is not replaced.
updateOutdatedThen_KeepsFilled(outdatedCache, results) ==
  IF outdatedCache = <<>> THEN results ELSE outdatedCache

\* updateOutdated: .then(results => this._outdatedCache = results)
updateOutdatedThen(outdatedCache, results) == results

\* updateOutdated: .catch(err => console.log("npmGetOutdated", err))
updateOutdatedCatch(outdatedCache) == outdatedCache

\* The npmGetOutdated request of invocation i resolves.
RefreshFulfilled(i) ==
  /\ MicrotasksEmpty
  /\ RefreshPending(i)
  /\ _outdatedCache' = updateOutdatedThen(_outdatedCache, npmOutdated(calls[i].path))
  /\ calls' = [calls EXCEPT ![i].refresh = "fulfilled",
                 ![i].results = npmOutdated(calls[i].path),
                 ![i].continuation = TRUE]
  /\ UNCHANGED <<_documentPath, showVersionLenses, inProgress, evaluation>>

\* The npmGetOutdated request of invocation i rejects.
RefreshRejected(i) ==
  /\ MicrotasksEmpty
  /\ RefreshPending(i)
  /\ _outdatedCache' = updateOutdatedCatch(_outdatedCache)
  /\ calls' = [calls EXCEPT ![i].refresh = "rejected",
                 ![i].logged = @ + 1,
                 ![i].continuation = TRUE]
  /\ UNCHANGED <<_documentPath, showVersionLenses, inProgress, evaluation>>

\* The callback provideCodeLenses chains on updateOutdated():
\* appSettings.inProgress = false; return generateCodeLenses(...)
provideCodeLensesThen(call) ==
  [call EXCEPT !.continuation = FALSE,
     !.generateCodeLensesCalls = @ + 1,
     !.value = generateCodeLenses(parseDependencyNodes(call.document)),
     !.promise = "fulfilled", !.resolvedWith = "lenses"]

ProvideCodeLensesThen(i) ==
  /\ calls[i].continuation
  /\ inProgress' = FALSE
  /\ calls' = [calls EXCEPT ![i] = provideCodeLensesThen(calls[i])]
  /\ UNCHANGED <<_outdatedCache, _documentPath, showVersionLenses, evaluation>>

\* ---------------------------------------------------------------- evaluation steps

\* The lenses the host holds: those of the promises that resolved.
HostLenses ==
  UNION {{calls[i].value[k] : k \in 1..Len(calls[i].value)} : i \in 1..Len(calls)}

EvaluateCodeLens(codeLens, showDependencyStatuses, env) ==
  /\ MicrotasksEmpty
  /\ evaluation' = evaluateCodeLens(codeLens, showDependencyStatuses,
                                    _documentPath, _outdatedCache, env)
  /\ UNCHANGED <<_outdatedCache, _documentPath, showVersionLenses, inProgress, calls>>

\* The queued callback of generateDecoration runs; .catch(console.error)
\* logs what it throws.
RunDecorationCallback ==
  /\ evaluation.pending
  /\ LET r == DecorationCallback(evaluation.outdated, evaluation.codeLens,
                                 evaluation.env)
     IN evaluation' = [evaluation EXCEPT !.pending = FALSE,
                         !.rendered = r.rendered,
                         !.callbackRuns = @ + 1,
                         !.logged = IF r.threw THEN @ + 1 ELSE @]
  /\ UNCHANGED <<_outdatedCache, _documentPath, showVersionLenses, inProgress, calls>>

\* ---------------------------------------------------------------- specifications

\* The provider under a host that may call provideCodeLenses again while an
\* earlier refresh is pending, with collaborators that may fail.
Next ==
  \/ \E document \in Documents : ProvideCodeLenses(document)
  \/ \E i \in 1..Len(calls) : RefreshFulfilled(i)
  \/ \E i \in 1..Len(calls) : RefreshRejected(i)
  \/ \E i \in 1..Len(calls) : ProvideCodeLensesThen(i)
  \/ \E codeLens \in HostLenses, showDependencyStatuses \in BOOLEAN,
        env \in Environments :
       EvaluateCodeLens(codeLens, showDependencyStatuses, env)
  \/ RunDecorationCallback

Spec == Init /\ [][Next]_vars

\* The same under a host that calls provideCodeLenses sequentially: a call
\* starts only when the result of every earlier call has settled.
NextSeq ==
  \/ \E document \in Documents : NoRefreshPending /\ ProvideCodeLenses(document)
  \/ \E i \in 1..Len(calls) : RefreshFulfilled(i)
  \/ \E i \in 1..Len(calls) : RefreshRejected(i)
  \/ \E i \in 1..Len(calls) : ProvideCodeLensesThen(i)
  \/ \E codeLens \in HostLenses, showDependencyStatuses \in BOOLEAN,
        env \in Environments :
       EvaluateCodeLens(codeLens, showDependencyStatuses, env)
  \/ RunDecorationCallback

SpecSeq == Init /\ [][NextSeq]_vars

\* One evaluateCodeLens call on any lens, against any cache content a refresh
\* may have left, with collaborators that return.
InitEval ==
  /\ _outdatedCache \in Caches
  /\ _documentPath \in Dirs
  /\ showVersionLenses = TRUE
  /\ inProgress = FALSE
  /\ calls = <<>>
  /\ evaluation = NoEvaluation

NextEval ==
  \/ /\ evaluation.status = "none"
     /\ \E codeLens \in AllLenses, showDependencyStatuses \in BOOLEAN,
           env \in TotalEnvironments :
          EvaluateCodeLens(codeLens, showDependencyStatuses, env)
  \/ RunDecorationCallback

SpecEval == InitEval /\ [][NextEval]_vars

\* ---------------------------------------------------------------- properties

\* The checks of the command resolution in priority order, each with the
\* command it selects; the last one always applies.
PriorityChain(codeLens) ==
  << <<codeLens.meta.present /\ codeLens.meta.type = "github", Command("github")>>,
     <<codeLens.meta.present /\ codeLens.meta.type = "file", Command("link")>>,
     <<codeLens.is["packageNotFound"], Command("packageNotFound")>>,
     <<codeLens.is["packageNotSupported"], Command("packageNotSupported")>>,
     <<codeLens.is["isTaggedVersion"], Command("taggedVersion")>>,
     <<codeLens.is["isInvalidVersion"], Command("invalid")>>,
     <<codeLens.is["versionMatchNotFound"], Command("versionMatchNotFound")>>,
     <<codeLens.is["matchesPrereleaseVersion"], Command("matchesPrereleaseVersion")>>,
     <<codeLens.is["matchesLatestVersion"], Command("matchesLatestVersion")>>,
     <<codeLens.is["satisfiesLatestVersion"], Command("satisfiesLatestVersion")>>,
     <<codeLens.is["isFixedVersion"], Command("fixedVersion")>>,
     <<TRUE, [kind |-> "version", args |-> <<codeLens.version, codeLens.tagged>>]>> >>

FirstMatch(codeLens) ==
  LET chain == PriorityChain(codeLens)
      first == CHOOSE i \in 1..Len(chain) :
                 chain[i][1] /\ \A j \in 1..(i - 1) : ~chain[j][1]
  IN chain[first][2]

\* C1: evaluateCodeLens returns exactly one command, that of the earliest true
\* check of the priority chain (github, file, not found, not supported, tagged,
\* invalid, version match not found, matches prerelease, matches latest,
\* satisfies latest, fixed, else the generic version command with
\* package.version and the tagged version), for every combination of predicate
\* values and also for a package without meta.
C1_FirstMatchWins ==
  evaluation.status # "none" =>
    /\ evaluation.status = "returned"
    /\ evaluation.command = FirstMatch(evaluation.codeLens)

\* A lens without meta on which two later checks are true and the earlier wins.
C1_Witness ==
  /\ evaluation.status = "returned"
  /\ ~evaluation.codeLens.meta.present
  /\ evaluation.codeLens.is["versionMatchNotFound"]
  /\ evaluation.codeLens.is["matchesLatestVersion"]
  /\ evaluation.command = Command("versionMatchNotFound")

\* The lens is one of github, file, not found, not supported or tagged.
ResolvedBeforeDecoration(codeLens) ==
  \/ codeLens.meta.present /\ codeLens.meta.type \in {"github", "file"}
  \/ codeLens.is["packageNotFound"]
  \/ codeLens.is["packageNotSupported"]
  \/ codeLens.is["isTaggedVersion"]

C6_State ==
  evaluation.status # "none" =>
    /\ evaluation.generateDecorationCalls =
         IF evaluation.showDependencyStatuses
            /\ ~ResolvedBeforeDecoration(evaluation.codeLens)
           THEN 1 ELSE 0
    /\ \A show \in BOOLEAN, env \in TotalEnvironments,
          cache \in {<<>>, _outdatedCache} :
         evaluateCodeLens(evaluation.codeLens, show, _documentPath, cache, env).command
           = evaluation.command

\* C6: evaluateCodeLens calls generateDecoration exactly when
\* showDependencyStatuses is on and the lens is none of github, file, not
\* found, not supported or tagged, and at most once; the command it returns is
\* the same with the setting on or off and whatever the decoration; and the
\* evaluation, its decoration included, changes neither _outdatedCache nor
\* _documentPath.
C6_DecorationIndependent ==
  /\ []C6_State
  /\ [][evaluation' # evaluation =>
          UNCHANGED <<_outdatedCache, _documentPath>>]_vars

\* A decoration was rendered from the cache and a command of the later checks
\* was returned.
C6_Witness ==
  /\ evaluation.status = "returned"
  /\ evaluation.showDependencyStatuses
  /\ evaluation.generateDecorationCalls = 1
  /\ evaluation.callbackRuns = 1
  /\ evaluation.rendered.kind = "needsUpdate"
  /\ evaluation.command = Command("invalid")

\* The decoration table: [kind, version], the version where the table names
\* the one the decoration carries ("" where it names none).
TagVersion(codeLens) == codeLens.meta.tagVersion

DecorationTable(codeLens, dirExists, outdated) ==
  LET index == findIndex(outdated, codeLens.name)
      current == outdated[index].current
  IN IF dirExists = "no" THEN [kind |-> "missing", version |-> ""]
     ELSE IF index = -1
       THEN [kind |-> "installed", version |-> TagVersion(codeLens)]
     ELSE IF current = TagVersion(codeLens)
       THEN IF codeLens.is["matchesLatestVersion"]
              THEN [kind |-> "installed", version |-> ""]
            ELSE IF codeLens.is["matchesPrereleaseVersion"]
              THEN [kind |-> "prereleaseInstalled", version |-> ""]
            ELSE [kind |-> "outdated", version |-> ""]
     ELSE [kind |-> "needsUpdate", version |-> current]

Shows(rendered, entry) ==
  /\ rendered.kind = entry.kind
  /\ entry.version # "" => rendered.args[1] = entry.version

DecorationDone ==
  /\ evaluation.status = "returned"
  /\ evaluation.generateDecorationCalls = 1
  /\ ~evaluation.pending

\* C3 as stated, on the lenses whose package has the tag version the table
\* reads: the decoration of every such lens and every cache content is the one
\* of the table: missing when the install directory does not exist, installed
\* with the tag version when the package is not in the cache, installed /
\* prerelease installed / outdated when the cached current version equals the
\* tag version, needs update with the current version otherwise.
C3_TableAsStated ==
  (DecorationDone /\ evaluation.codeLens.meta.present) =>
    Shows(evaluation.rendered,
          DecorationTable(evaluation.codeLens, evaluation.env.dirExists,
                          evaluation.outdated))

\* C3 amended: as the table, except that with the install directory present a
\* package without meta gets no decoration (the error is logged), and a cache
\* entry whose current version is empty gets the missing decoration.
C3_TableAmended ==
  DecorationDone =>
    LET codeLens == evaluation.codeLens
        index == findIndex(evaluation.outdated, codeLens.name)
    IN IF evaluation.env.dirExists = "yes" /\ ~codeLens.meta.present
         THEN evaluation.rendered = NoDecoration /\ evaluation.logged = 1
       ELSE IF /\ evaluation.env.dirExists = "yes"
               /\ index # -1
               /\ evaluation.outdated[index].current = ""
         THEN evaluation.rendered.kind = "missing" /\ evaluation.logged = 0
       ELSE /\ Shows(evaluation.rendered,
                     DecorationTable(codeLens, evaluation.env.dirExists,
                                     evaluation.outdated))
            /\ evaluation.logged = 0

\* The cache lists the package with an empty current version and the callback
\* rendered the missing decoration.
C3_Witness ==
  /\ DecorationDone
  /\ evaluation.env.dirExists = "yes"
  /\ evaluation.callbackRuns = 1
  /\ evaluation.codeLens.meta.present
  /\ findIndex(evaluation.outdated, evaluation.codeLens.name) # -1
  /\ evaluation.outdated[findIndex(evaluation.outdated, evaluation.codeLens.name)].current = ""
  /\ evaluation.rendered.kind = "missing"

\* Invocation i read showVersionLenses as false, or its document did not parse.
Disabled(i) == calls[i].showVersionLenses = FALSE
Unparsed(i) == ~Disabled(i) /\ calls[i].document.parse # "ok"
ReachedRefresh(i) == ~Disabled(i) /\ ~Unparsed(i)

\* C2: provideCodeLenses yields undefined when showVersionLenses is false and
\* an empty list when the document does not parse or has validation errors,
\* in both cases without starting a refresh or setting inProgress; otherwise
\* it returns a promise that resolves to the generated lenses, one per
\* recognized dependency declaration.
C2_ProvideResult ==
  /\ \A i \in 1..Len(calls) :
       /\ Disabled(i) =>
            /\ calls[i].returned = "undefined" /\ calls[i].value = <<>>
            /\ calls[i].npmGetOutdatedCalls = 0 /\ calls[i].refresh = "none"
       /\ Unparsed(i) =>
            /\ calls[i].returned = "array" /\ calls[i].value = <<>>
            /\ calls[i].npmGetOutdatedCalls = 0 /\ calls[i].refresh = "none"
       /\ ReachedRefresh(i) =>
            /\ calls[i].returned = "promise"
            /\ calls[i].promise \in {"pending", "fulfilled"}
            /\ calls[i].promise = "fulfilled" =>
                 /\ calls[i].resolvedWith = "lenses"
                 /\ Len(calls[i].value) = Len(calls[i].document.dependencies)
                 /\ \A k \in 1..Len(calls[i].value) :
                      calls[i].value[k].name = calls[i].document.dependencies[k]
  /\ (\A i \in 1..Len(calls) : ~ReachedRefresh(i)) => inProgress = FALSE

\* One call returned the empty list for a document with validation errors and
\* another resolved to two lenses.
C2_Witness ==
  /\ \E i \in 1..Len(calls) :
       calls[i].document.parse = "errors" /\ calls[i].returned = "array"
  /\ \E i \in 1..Len(calls) :
       calls[i].promise = "fulfilled" /\ Len(calls[i].value) = 2

\* C4: an error of the refresh or of the decoration pipeline is swallowed and
\* logged: the promise of provideCodeLenses never rejects, generateCodeLenses
\* still runs once the refresh has settled, npmGetOutdated is called once per
\* request, and nothing propagates out of evaluateCodeLens.
C4_ErrorsSwallowed ==
  /\ \A i \in 1..Len(calls) :
       /\ calls[i].promise # "rejected"
       /\ calls[i].npmGetOutdatedCalls <= 1
       /\ (calls[i].refresh = "rejected" /\ ~calls[i].continuation) =>
            (calls[i].generateCodeLensesCalls = 1 /\ calls[i].logged = 1)
  /\ evaluation.status # "threw"
  /\ (evaluation.callbackRuns = 1 /\ evaluation.env.renderThrows) =>
       evaluation.logged = 1

\* What the request of invocation i produced: its results, or nothing when it
\* failed.
Produced(i) == IF calls'[i].refresh = "fulfilled" THEN calls'[i].results ELSE <<>>

\* C5: when the refresh of an invocation settles, _outdatedCache is exactly
\* what that invocation's npmGetOutdated call produced, with nothing carried
\* over from an earlier request, also when the refresh fails.
C5_RefreshedWholesale ==
  [][\A i \in 1..Len(calls) :
       (RefreshPending(i) /\ calls'[i].refresh # "pending") =>
         _outdatedCache' = Produced(i)]_vars

\* C7: under sequential calls, whenever no refresh is pending the cache holds
\* the npmGetOutdated results of the directory in _documentPath, and so does
\* the array generateDecoration reads for the directory it checks.
C7_CacheScopedToPath ==
  /\ NoRefreshPending => _outdatedCache = npmOutdated(_documentPath)
  /\ (evaluation.generateDecorationCalls = 1 /\ evaluation.env.dirExists = "yes") =>
       evaluation.outdated = npmOutdated(evaluation.documentPath)

\* The directory of the latest request that got past the settings check.
LatestPath ==
  LET enabled == {i \in 1..Len(calls) : ~Disabled(i)}
  IN IF enabled = {} THEN <<>>
     ELSE dirname(calls[CHOOSE i \in enabled : \A j \in enabled : j <= i].document.fsPath)

\* C8: overlapping requests race on the shared fields: whenever a refresh
\* fulfils, the cache becomes the results of that refresh (so the one that
\* settles last decides it, whatever the order of the requests) while
\* _documentPath stays the directory of the latest request.
C8_LastSettledWins ==
  [][\A i \in 1..Len(calls) :
       (RefreshPending(i) /\ calls'[i].refresh = "fulfilled") =>
         /\ _outdatedCache' = npmOutdated(dirname(calls[i].document.fsPath))
         /\ _documentPath' = LatestPath]_vars

\* Document B was requested while the refresh for document A was pending, A's
\* refresh settled last, and generateDecoration then checked B's directory
\* against A's outdated list.
C8_Witness ==
  /\ Len(calls) = 2
  /\ calls[1].refresh = "fulfilled" /\ calls[2].refresh = "fulfilled"
  /\ calls[1].path # calls[2].path
  /\ _documentPath = calls[2].path
  /\ _outdatedCache = calls[1].results
  /\ _outdatedCache # calls[2].results
  /\ evaluation.generateDecorationCalls = 1
  /\ evaluation.env.dirExists = "yes"
  /\ evaluation.documentPath = calls[2].path
  /\ evaluation.outdated = calls[1].results

CacheBased == {"installed", "prereleaseInstalled", "outdated", "needsUpdate"}

\* C9: within an invocation generateCodeLenses runs at most once and never
\* before the invocation's npmGetOutdated call has settled; the decoration
\* that generateDecoration renders from the cache is rendered in a later step
\* than the evaluateCodeLens call, which has returned its command by then.
C9_AwaitsRefreshOnce ==
  /\ \A i \in 1..Len(calls) :
       /\ calls[i].generateCodeLensesCalls <= 1
       /\ calls[i].generateCodeLensesCalls = 1 =>
            calls[i].refresh \in {"fulfilled", "rejected"}
       /\ calls[i].promise = "fulfilled" => calls[i].generateCodeLensesCalls = 1
  /\ evaluation.pending =>
       /\ evaluation.status = "returned"
       /\ evaluation.command # NoCommand
       /\ evaluation.rendered = NoDecoration
  /\ evaluation.rendered.kind \in CacheBased =>
       /\ evaluation.status = "returned"
       /\ evaluation.callbackRuns = 1

\* The lenses of an invocation whose refresh failed were generated, and an
\* evaluation has returned its command while its decoration is still to come.
C9_Witness ==
  /\ \E i \in 1..Len(calls) :
       calls[i].refresh = "rejected" /\ calls[i].generateCodeLensesCalls = 1
  /\ evaluation.pending
  /\ evaluation.command # NoCommand

\* C10: inProgress is false only if no cache refresh is pending (every
\* invocation that set it resets it once its own request has settled), for
\* sequential and for overlapping invocations alike.
C10_InProgressTracksRefresh ==
  /\ inProgress = FALSE => NoRefreshPending
  /\ \A i \in 1..Len(calls) :
       (calls[i].promise = "fulfilled" /\ NoRefreshPending /\ MicrotasksEmpty) =>
         inProgress = FALSE

====
